---- MODULE Spec2Model ----
(***************************************************************************)
(* SaveInterestingFilesModule.cpp: a reporting module that saves the files *)
(* and directories named by "interesting file hit" artifacts to an output  *)
(* folder.  The model follows report() statement by statement, with the    *)
(* recursion of saveDirectoryContents() as an explicit stack of frames.    *)
(*                                                                         *)
(* Strings are sequences of one-character strings; a path is the flat      *)
(* string the code builds with operator<<, separator included.  The        *)
(* alphabet is ASCII, on which the narrow/wide conversions of the code     *)
(* (c_str() into a wide stream, TskUtilities::toUTF8) keep every code unit.*)
(***************************************************************************)
EXTENDS Integers, Sequences, FiniteSets, TLC

\* ------------------------------------------------------------------------
\* Bounds of the model
\* ------------------------------------------------------------------------
\* Most artifacts the blackboard returns to one report().
MaxHits == 2
\* Most attributes that the artifacts of one report() carry in total.
MaxAttrs == 2
\* Most saveDirectoryContents frames alive at once (the image below needs 3).
MaxDepth == 4

\* ------------------------------------------------------------------------
\* Strings and paths
\* ------------------------------------------------------------------------
\* Poco::Path::separator()
Sep == "/"

Digit == <<"0", "1", "2", "3", "4", "5", "6", "7", "8", "9">>

\* operator<< of an unsigned integer: its decimal digits.
RECURSIVE ToDec(_)
ToDec(n) == IF n < 10 THEN <<Digit[n + 1]>>
                      ELSE ToDec(n \div 10) \o <<Digit[(n % 10) + 1]>>

\* The proper ancestors of a path: what precedes each separator.
Parents(path) ==
    {SubSeq(path, 1, k - 1) : k \in {j \in 2..Len(path) : path[j] = Sep}}

\* ------------------------------------------------------------------------
\* Collaborators: image database, blackboard, host file system
\* ------------------------------------------------------------------------
TSK_FS_META_TYPE_DIR == "DIR"
TSK_FS_META_TYPE_REG == "REG"
TSK_FS_META_TYPE_LNK == "LNK"
TSK_SET_NAME         == "TSK_SET_NAME"
TSK_COMMENT          == "TSK_COMMENT"

\* The file records of the image, in the order the database returns them.
\* The parent links form a tree: a file system has no directory cycle.
ImgDB == <<
    [fileId |-> 1,  parFileId |-> 0, name |-> <<"2", "a">>, metaType |-> TSK_FS_META_TYPE_DIR],
    [fileId |-> 2,  parFileId |-> 1, name |-> <<"b">>,      metaType |-> TSK_FS_META_TYPE_DIR],
    [fileId |-> 12, parFileId |-> 2, name |-> <<"a">>,      metaType |-> TSK_FS_META_TYPE_REG],
    [fileId |-> 5,  parFileId |-> 2, name |-> <<"c">>,      metaType |-> TSK_FS_META_TYPE_DIR],
    [fileId |-> 4,  parFileId |-> 1, name |-> <<"a">>,      metaType |-> TSK_FS_META_TYPE_LNK] >>

Records == {ImgDB[i] : i \in 1..Len(ImgDB)}

NoRecord == [fileId |-> 0, parFileId |-> 0, name |-> <<>>, metaType |-> "NONE"]

\* TskImgDB::getFileRecords("WHERE par_file_id = <dirFileId>")
getFileRecords(dirFileId) ==
    SelectSeq(ImgDB, LAMBDA r : r.parFileId = dirFileId)

\* TskImgDB::getFileRecord(id, file): -1 when no record has that id.
getFileRecord(id) ==
    IF \E r \in Records : r.fileId = id
        THEN [rc |-> 0, file |-> CHOOSE r \in Records : r.fileId = id]
        ELSE [rc |-> -1, file |-> NoRecord]

\* The object ids an interesting file hit may name; 99 has no file record.
ObjectIds == {1, 4, 12, 99}

SetNames == {<<"s">>, <<"t">>}

\* The attributes an artifact may carry.
Attributes ==
    [type : {TSK_SET_NAME}, value : SetNames]
        \cup {[type |-> TSK_COMMENT, value |-> <<"s">>]}

SeqsUpTo(S, n) == UNION {[1..k -> S] : k \in 0..n}

\* The arguments initialize() may receive; NULL is no string of characters.
NULL == <<"NULL">>
GoodFolder == <<"o">>
BadFolder  == <<"x">>
Arguments == {NULL, <<>>, BadFolder, GoodFolder}

\* Paths Poco::File::createDirectories() cannot create on this host: the
\* empty path (Poco asserts a non-empty path) and an unusable location.
Uncreatable(path) == path = <<>> \/ path = BadFolder

OK   == "OK"
FAIL == "FAIL"

VARIABLES
    outputFolderPath,  \* the cached output folder (file-scope std::string)
    initStatus,        \* what the last initialize() returned, "none" before
    pc,                \* where the module is in its life cycle / in report()
    returnCode,        \* report(): returnCode
    files,             \* report(): the artifacts (object ids) being iterated
    artifact,          \* report(): position of the artifact iterator
    file,              \* report(): the file record of the current hit
    attrs,             \* report(): the attributes of the current hit
    attr,              \* report(): position of the attribute iterator
    stack,             \* frames of saveDirectoryContents, innermost last
    fsDirs,            \* host file system: directories that exist
    fsFiles,           \* host file system: [path, fileId] of each file
    argument,          \* history: what the last initialize() received
    hitLog,            \* history: one entry per hit entered, in order
    rootOp             \* history: outcome of creating the output folder

vars == <<outputFolderPath, initStatus, pc, returnCode, files, artifact, file,
          attrs, attr, stack, fsDirs, fsFiles, argument, hitLog, rootOp>>

locals == <<files, artifact, file, attrs, attr, stack>>
fs     == <<fsDirs, fsFiles>>

\* ------------------------------------------------------------------------
\* Path construction
\* ------------------------------------------------------------------------
\* Variant of the file path without the file id prefix.
InterestingFilePath_NoId(folder, f, setName) ==
    folder \o <<Sep>> \o setName \o <<Sep>> \o f.name

\* saveInterestingFile: <output folder>/<set name>/<file id>_<file name>
InterestingFilePath(folder, f, setName) ==
    folder \o <<Sep>> \o setName \o <<Sep>> \o ToDec(f.fileId) \o <<"_">> \o f.name

\* Variant of the directory path without the <file id>_<name> container.
InterestingDirectoryPath_NoContainer(folder, dir, setName) ==
    folder \o <<Sep>> \o setName \o <<Sep>> \o dir.name

\* saveInterestingDirectory:
\* <output folder>/<set name>/<file id>_<directory name>/<directory name>
InterestingDirectoryPath(folder, dir, setName) ==
    folder \o <<Sep>> \o setName \o <<Sep>> \o ToDec(dir.fileId) \o <<"_">> \o dir.name
           \o <<Sep>> \o dir.name

\* Variant of the child path with the file id prefix of the top level.
ChildPath_Prefixed(dirPath, f) ==
    dirPath \o <<Sep>> \o ToDec(f.fileId) \o <<"_">> \o f.name

\* saveDirectoryContents: <dirPath>/<name> for files and subdirectories alike
ChildPath(dirPath, f) == dirPath \o <<Sep>> \o f.name

\* ------------------------------------------------------------------------
\* Effects on the host file system
\* ------------------------------------------------------------------------
\* Poco::File::createDirectories(): the directory and its missing parents.
CreatedDirs(dirs, path) == dirs \cup {path} \cup Parents(path)

\* TskFileManager::copyFile(fileId, path): the content of fileId at path.
CopiedFiles(fls, fileId, path) ==
    {e \in fls : e.path # path} \cup {[path |-> path, fileId |-> fileId]}

\* One entry of the operation history of a hit.
Op(kind, by, path, fileId, ok) ==
    [op |-> kind, by |-> by, path |-> path, fileId |-> fileId, ok |-> ok]

\* Append an operation to the history of the current hit.
Logged(log, op) ==
    [log EXCEPT ![Len(log)].ops = Append(@, op)]

Init ==
    /\ outputFolderPath = <<>>
    /\ initStatus = "none"
    /\ pc = "loaded"
    /\ returnCode = OK
    /\ files = <<>>
    /\ artifact = 1
    /\ file = NoRecord
    /\ attrs = <<>>
    /\ attr = 1
    /\ stack = <<>>
    /\ fsDirs = {}
    /\ fsFiles = {}
    /\ argument = <<"none">>
    /\ hitLog = <<>>
    /\ rootOp = "none"

\* ------------------------------------------------------------------------
\* The module API
\* ------------------------------------------------------------------------
\* The entry the history opens for a hit when the loop body is entered.
HitEntry(id) ==
    [objectId |-> id, resolved |-> FALSE, attrs |-> <<>>, saves |-> <<>>,
     ops |-> <<>>, caught |-> 0, done |-> FALSE]

\* Attributes the history has already handed out in this run.
RECURSIVE AttrsUsed(_)
AttrsUsed(log) ==
    IF log = <<>> THEN 0
    ELSE Len(log[Len(log)].attrs) + AttrsUsed(SubSeq(log, 1, Len(log) - 1))

\* Variant of the throw: a failure inside the walk is dropped per child and
\* the loop of the innermost frame goes on.
ThrowTskException_CaughtPerChild ==
    IF pc = "saveDirectoryContents"
        THEN /\ stack' = [stack EXCEPT ![Len(stack)].file = @ + 1]
             /\ pc' = pc
        ELSE /\ stack' = <<>>
             /\ pc' = IF pc = "ready" THEN "catchReport" ELSE "catchHit"

\* throw TskException: control leaves every saveDirectoryContents frame and
\* reaches the innermost enclosing catch of report().
ThrowTskException ==
    /\ stack' = <<>>
    /\ pc' = IF pc = "ready" THEN "catchReport" ELSE "catchHit"

\* Variant of initialize(): a missing or empty argument is reported as FAIL.
Initialize_RejectsBadArgument ==
    /\ pc \in {"loaded", "ready"}
    /\ \E arguments \in Arguments :
          /\ outputFolderPath' = IF arguments = NULL THEN <<>> ELSE arguments
          /\ argument' = arguments
          /\ initStatus' = IF arguments \in {NULL, <<>>} THEN FAIL ELSE OK
    /\ pc' = "ready"
    /\ UNCHANGED <<returnCode, locals, fs, hitLog, rootOp>>

\* initialize(arguments): clears and caches the output folder, returns OK.
Initialize ==
    /\ pc \in {"loaded", "ready"}
    /\ \E arguments \in Arguments :
          /\ outputFolderPath' = IF arguments = NULL THEN <<>> ELSE arguments
          /\ argument' = arguments
    /\ initStatus' = OK
    /\ pc' = "ready"
    /\ UNCHANGED <<returnCode, locals, fs, hitLog, rootOp>>

\* report(), entry: returnCode = OK, then createDirectory(outputFolderPath).
ReportCreateOutputFolder ==
    /\ pc = "ready"
    /\ returnCode' = OK
    /\ \E ok \in BOOLEAN :
          /\ ok => ~Uncreatable(outputFolderPath)
          /\ IF ok
                THEN /\ fsDirs' = CreatedDirs(fsDirs, outputFolderPath)
                     /\ rootOp' = "created"
                     /\ pc' = "getArtifacts"
                     /\ stack' = stack
                ELSE /\ fsDirs' = fsDirs
                     /\ rootOp' = "failed"
                     /\ ThrowTskException
    /\ UNCHANGED <<outputFolderPath, initStatus, argument, files, artifact, file,
                   attrs, attr, fsFiles, hitLog>>

\* report(): files = getBlackboard().getArtifacts(TSK_INTERESTING_FILE_HIT)
GetArtifacts ==
    /\ pc = "getArtifacts"
    /\ \E hits \in SeqsUpTo(ObjectIds, MaxHits) : files' = hits
    /\ artifact' = 1
    /\ pc' = "forArtifact"
    /\ UNCHANGED <<outputFolderPath, initStatus, argument, returnCode, file, attrs, attr,
                   stack, fs, hitLog, rootOp>>

\* report(): the test of the outer for loop, then return returnCode when
\* the loop is over, and otherwise getFileRecord(objectId, file), which
\* throws when it returns -1, attrs = artifact.getAttributes() and the
\* start of the inner loop.
ForArtifact ==
    /\ pc = "forArtifact"
    /\ IF artifact > Len(files)
          THEN /\ pc' = "returned"
               /\ UNCHANGED <<file, attrs, attr, stack, hitLog>>
          ELSE LET got == getFileRecord(files[artifact])
                   entered == Append(hitLog, HitEntry(files[artifact]))
               IN
               IF got.rc = -1
                  THEN /\ ThrowTskException
                       /\ hitLog' = entered
                       /\ UNCHANGED <<file, attrs, attr>>
                  ELSE /\ file' = got.file
                       /\ \E as \in SeqsUpTo(Attributes, MaxAttrs - AttrsUsed(hitLog)) :
                             /\ attrs' = as
                             /\ hitLog' = [entered EXCEPT ![Len(entered)].resolved = TRUE,
                                                          ![Len(entered)].attrs = as]
                       /\ attr' = 1
                       /\ pc' = "forAttr"
                       /\ stack' = stack
    /\ UNCHANGED <<outputFolderPath, initStatus, argument, returnCode, files,
                   artifact, fs, rootOp>>

\* Variant of the attribute test: every attribute counts as a set name.
IsSetName_Any(a) == TRUE

\* report(): (*attr).getAttributeTypeID() == TSK_SET_NAME
IsSetName(a) == a.type = TSK_SET_NAME

\* report(): the inner for loop up to the dispatch on file.metaType.
ForAttr ==
    /\ pc = "forAttr"
    /\ IF attr > Len(attrs)
          THEN /\ pc' = "forArtifact"
               /\ artifact' = artifact + 1
               /\ attr' = attr
               /\ hitLog' = [hitLog EXCEPT ![Len(hitLog)].done = TRUE]
          ELSE IF ~IsSetName(attrs[attr])
          THEN /\ pc' = "forAttr"
               /\ attr' = attr + 1
               /\ UNCHANGED <<artifact, hitLog>>
          ELSE /\ pc' = IF file.metaType = TSK_FS_META_TYPE_DIR
                           THEN "saveInterestingDirectory"
                           ELSE "saveInterestingFile"
               /\ hitLog' = [hitLog EXCEPT ![Len(hitLog)].saves =
                                               Append(@, attrs[attr].value)]
               /\ UNCHANGED <<artifact, attr>>
    /\ UNCHANGED <<outputFolderPath, initStatus, argument, returnCode, files,
                   file, attrs, stack, fs, rootOp>>

\* Variant of saveInterestingFile: the set-name directory is made first.
SaveInterestingFile_MakesSetDirectory ==
    /\ pc = "saveInterestingFile"
    /\ LET path == InterestingFilePath(outputFolderPath, file, attrs[attr].value) IN
       \E ok \in BOOLEAN :
          /\ hitLog' = Logged(hitLog, Op("copy", "saveInterestingFile", path, file.fileId, ok))
          /\ fsDirs' = CreatedDirs(fsDirs, outputFolderPath \o <<Sep>> \o attrs[attr].value)
          /\ IF ok
                THEN /\ fsFiles' = CopiedFiles(fsFiles, file.fileId, path)
                     /\ attr' = attr + 1
                     /\ pc' = "forAttr"
                     /\ stack' = stack
                ELSE /\ fsFiles' = fsFiles
                     /\ attr' = attr
                     /\ ThrowTskException
    /\ UNCHANGED <<outputFolderPath, initStatus, argument, returnCode, files,
                   artifact, file, attrs, rootOp>>

\* saveInterestingFile(file, setName): copyFile to the prefixed path.
SaveInterestingFile ==
    /\ pc = "saveInterestingFile"
    /\ LET path == InterestingFilePath(outputFolderPath, file, attrs[attr].value) IN
       \E ok \in BOOLEAN :
          /\ hitLog' = Logged(hitLog, Op("copy", "saveInterestingFile", path, file.fileId, ok))
          /\ IF ok
                THEN /\ fsFiles' = CopiedFiles(fsFiles, file.fileId, path)
                     /\ attr' = attr + 1
                     /\ pc' = "forAttr"
                     /\ stack' = stack
                ELSE /\ fsFiles' = fsFiles
                     /\ attr' = attr
                     /\ ThrowTskException
    /\ UNCHANGED <<outputFolderPath, initStatus, argument, returnCode, files,
                   artifact, file, attrs, fsDirs, rootOp>>

\* The frame a call saveDirectoryContents(dirPath, dirFileId) opens: its
\* first statement fetches the records of the directory.
Frame(dirPath, dirFileId) ==
    [dirPath |-> dirPath, files |-> getFileRecords(dirFileId), file |-> 1]

\* Variant of the recursive call: it passes the id of the directory being
\* listed instead of the id of the subdirectory.
SubFrame_SameDirectory(subDirPath, child) == Frame(subDirPath, child.parFileId)

\* The recursive call saveDirectoryContents(subDirPath, (*file).fileId).
SubFrame(subDirPath, child) == Frame(subDirPath, child.fileId)

\* saveInterestingDirectory(dir, setName): createDirectory(path), then the
\* call saveDirectoryContents(path, dir.fileId).
SaveInterestingDirectory ==
    /\ pc = "saveInterestingDirectory"
    /\ LET path == InterestingDirectoryPath(outputFolderPath, file, attrs[attr].value) IN
       \E ok \in BOOLEAN :
          /\ hitLog' = Logged(hitLog, Op("mkdir", "saveInterestingDirectory", path, file.fileId, ok))
          /\ IF ok
                THEN /\ fsDirs' = CreatedDirs(fsDirs, path)
                     /\ stack' = <<Frame(path, file.fileId)>>
                     /\ pc' = "saveDirectoryContents"
                ELSE /\ fsDirs' = fsDirs
                     /\ ThrowTskException
    /\ UNCHANGED <<outputFolderPath, initStatus, argument, returnCode, files,
                   artifact, file, attrs, attr, fsFiles, rootOp>>

\* saveDirectoryContents: one pass of the loop in the innermost frame, or
\* the return of that frame when its loop is over.
SaveDirectoryContents ==
    /\ pc = "saveDirectoryContents"
    /\ LET top == stack[Len(stack)]
           rest == SubSeq(stack, 1, Len(stack) - 1)
       IN
       IF top.file > Len(top.files)
          THEN \* return: the caller's iterator advances
               /\ IF rest = <<>>
                     THEN /\ stack' = <<>>
                          /\ attr' = attr + 1
                          /\ pc' = "forAttr"
                     ELSE /\ stack' = [rest EXCEPT ![Len(rest)].file = @ + 1]
                          /\ attr' = attr
                          /\ pc' = "saveDirectoryContents"
               /\ UNCHANGED <<fs, hitLog>>
          ELSE
            LET child == top.files[top.file]
                path == ChildPath(top.dirPath, child)
            IN
            IF child.metaType = TSK_FS_META_TYPE_DIR
               THEN /\ Len(stack) < MaxDepth
                    /\ \E ok \in BOOLEAN :
                          /\ hitLog' = Logged(hitLog, Op("mkdir", "saveDirectoryContents", path, child.fileId, ok))
                          /\ IF ok
                                THEN /\ fsDirs' = CreatedDirs(fsDirs, path)
                                     /\ stack' = Append(stack, SubFrame(path, child))
                                     /\ pc' = "saveDirectoryContents"
                                ELSE /\ fsDirs' = fsDirs
                                     /\ ThrowTskException
                    /\ UNCHANGED <<fsFiles, attr>>
               ELSE /\ \E ok \in BOOLEAN :
                          /\ hitLog' = Logged(hitLog, Op("copy", "saveDirectoryContents", path, child.fileId, ok))
                          /\ IF ok
                                THEN /\ fsFiles' = CopiedFiles(fsFiles, child.fileId, path)
                                     /\ stack' = [stack EXCEPT ![Len(stack)].file = @ + 1]
                                     /\ pc' = "saveDirectoryContents"
                                ELSE /\ fsFiles' = fsFiles
                                     /\ ThrowTskException
                    /\ UNCHANGED <<fsDirs, attr>>
    /\ UNCHANGED <<outputFolderPath, initStatus, argument, returnCode, files,
                   artifact, file, attrs, rootOp>>

\* Variant of the inner catch: the error is logged and the status left alone.
CatchHit_KeepsStatus ==
    /\ pc = "catchHit"
    /\ returnCode' = returnCode
    /\ artifact' = artifact + 1
    /\ hitLog' = [hitLog EXCEPT ![Len(hitLog)].done = TRUE,
                                ![Len(hitLog)].caught = @ + 1]
    /\ pc' = "forArtifact"
    /\ UNCHANGED <<outputFolderPath, initStatus, argument, files, file, attrs, attr,
                   stack, fs, rootOp>>

\* Variant of the inner catch: the first failing hit ends the loop.
CatchHit_EndsLoop ==
    /\ pc = "catchHit"
    /\ returnCode' = FAIL
    /\ artifact' = artifact
    /\ hitLog' = [hitLog EXCEPT ![Len(hitLog)].done = TRUE,
                                ![Len(hitLog)].caught = @ + 1]
    /\ pc' = "returned"
    /\ UNCHANGED <<outputFolderPath, initStatus, argument, files, file, attrs, attr,
                   stack, fs, rootOp>>

\* report(): the catch inside the loop: FAIL, then the next artifact.
CatchHit ==
    /\ pc = "catchHit"
    /\ returnCode' = FAIL
    /\ artifact' = artifact + 1
    /\ hitLog' = [hitLog EXCEPT ![Len(hitLog)].done = TRUE,
                                ![Len(hitLog)].caught = @ + 1]
    /\ pc' = "forArtifact"
    /\ UNCHANGED <<outputFolderPath, initStatus, argument, files, file, attrs, attr,
                   stack, fs, rootOp>>

\* report(): the catch around the whole body: FAIL, then return returnCode.
CatchReport ==
    /\ pc = "catchReport"
    /\ returnCode' = FAIL
    /\ pc' = "returned"
    /\ UNCHANGED <<outputFolderPath, initStatus, argument, locals, fs, hitLog,
                   rootOp>>

\* The statements of report() after its first: once report() is called it
\* runs to its return, no statement waits on anything.
ReportBody ==
    \/ GetArtifacts
    \/ ForArtifact
    \/ ForAttr
    \/ SaveInterestingFile
    \/ SaveInterestingDirectory
    \/ SaveDirectoryContents
    \/ CatchHit
    \/ CatchReport

Next ==
    \/ Initialize
    \/ ReportCreateOutputFolder
    \/ ReportBody

Spec == Init /\ [][Next]_vars

\* report() is sequential code: a started call keeps executing.
FairSpec == Spec /\ WF_vars(ReportBody)

\* ------------------------------------------------------------------------
\* Vocabulary of the properties
\* ------------------------------------------------------------------------
Done == pc = "returned"

InReport == pc \notin {"loaded", "ready", "returned"}

Range(q) == {q[k] : k \in 1..Len(q)}

NoRecordFor(id) == \A r \in Records : r.fileId # id

RecordOf(id) == CHOOSE r \in Records : r.fileId = id

\* The values of the rule-set-name attributes of an attribute list, in order.
SetNameValues(as) ==
    LET sel == SelectSeq(as, LAMBDA a : a.type = "TSK_SET_NAME")
    IN  [k \in 1..Len(sel) |-> sel[k].value]

\* A create-directory or copy step of the hit failed.
HitFailed(h) == \E k \in 1..Len(h.ops) : ~h.ops[k].ok

\* The hit ran through without any error.
HitClean(h) == h.done /\ h.resolved /\ ~HitFailed(h)

\* Some error occurred in the run so far.
ErrorOccurred ==
    \/ rootOp = "failed"
    \/ \E i \in 1..Len(hitLog) :
          \/ HitFailed(hitLog[i])
          \/ NoRecordFor(hitLog[i].objectId) /\ (hitLog[i].done \/ pc = "catchHit")

SepCount(path) == Cardinality({k \in 1..Len(path) : path[k] = Sep})

\* <root>/<setName>
SetDirectory(S) == outputFolderPath \o <<Sep>> \o S

\* <root>/<setName>/<fileId>_<name>
TopLevelPath(r, S) ==
    SetDirectory(S) \o <<Sep>> \o ToDec(r.fileId) \o <<"_">> \o r.name

\* <root>/<setName>/<fileId>_<name>/<name>
SubtreeRoot(X, S) == TopLevelPath(X, S) \o <<Sep>> \o X.name

\* r is reachable from X through parentFileId links.
RECURSIVE IsBelow(_, _)
IsBelow(r, X) ==
    \/ r.parFileId = X.fileId
    \/ \E p \in Records : p.fileId = r.parFileId /\ IsBelow(p, X)

Descendants(X) == {r \in Records : IsBelow(r, X)}

\* /<names of the ancestors of r below X, outermost first>/<name of r>
RECURSIVE RelPath(_, _)
RelPath(r, X) ==
    IF r.parFileId = X.fileId
        THEN <<Sep>> \o r.name
        ELSE RelPath(RecordOf(r.parFileId), X) \o <<Sep>> \o r.name

Entry(kind, path, fileId) == [op |-> kind, path |-> path, fileId |-> fileId]

\* What saving directory X under set S has to write.
ExpectedEntries(X, S) ==
    {Entry("mkdir", SubtreeRoot(X, S), X.fileId)} \cup
    {Entry(IF r.metaType = "DIR" THEN "mkdir" ELSE "copy",
           SubtreeRoot(X, S) \o RelPath(r, X), r.fileId) : r \in Descendants(X)}

OnDisk(e) ==
    IF e.op = "mkdir" THEN e.path \in fsDirs
                      ELSE [path |-> e.path, fileId |-> e.fileId] \in fsFiles

\* The record is on disk under set S as the path format prescribes.
Materialized(r, S) ==
    IF r.metaType = "DIR"
        THEN TopLevelPath(r, S) \in fsDirs /\ \A e \in ExpectedEntries(r, S) : OnDisk(e)
        ELSE [path |-> TopLevelPath(r, S), fileId |-> r.fileId] \in fsFiles

\* The entries directly inside the set-name directories of the output folder.
TopLevelArtifacts ==
    {p \in fsDirs \cup {e.path : e \in fsFiles} :
        SepCount(p) = SepCount(outputFolderPath) + 2}

\* One top-level path per (hit, rule-set-name attribute) pair of the run.
ExpectedArtifacts ==
    UNION {{TopLevelPath(RecordOf(h.objectId), S) : S \in Range(SetNameValues(h.attrs))}
              : h \in {g \in Range(hitLog) : g.resolved}}

\* The operations of a hit made by the two top-level save functions.
TopOps(h) == SelectSeq(h.ops, LAMBDA o : o.by # "saveDirectoryContents")

\* A path cut after its <fileId>_<name> component.
TopComponent(path) ==
    LET seps == {k \in 1..Len(path) : path[k] = Sep}
        n == SepCount(outputFolderPath) + 2
    IN  IF Cardinality(seps) <= n THEN path
        ELSE SubSeq(path, 1,
                    (CHOOSE k \in seps : Cardinality({j \in seps : j < k}) = n) - 1)

\* All top-level operations of the run.
AllTopOps == UNION {Range(TopOps(h)) : h \in Range(hitLog)}

\* How often the recursive walk of a hit touched the record with this id.
Visits(h, id) ==
    Cardinality({k \in 1..Len(h.ops) :
                    h.ops[k].by = "saveDirectoryContents" /\ h.ops[k].fileId = id})

\* ------------------------------------------------------------------------
\* Properties
\* ------------------------------------------------------------------------

\* C1: when report() has returned, its status is FAIL exactly when an error
\* occurred in the run (output folder not created, no file record for a hit,
\* a directory creation or a copy that failed), and OK otherwise.
C1_StatusReflectsErrors ==
    /\ returnCode \in {OK, FAIL}
    /\ Done => (returnCode = FAIL <=> ErrorOccurred)

\* A run whose first hit fails in a copy or directory step and whose second
\* hit is saved without error: the status stays FAIL.
C1_Witness ==
    /\ Done
    /\ Len(hitLog) = 2
    /\ HitFailed(hitLog[1])
    /\ HitClean(hitLog[2]) /\ hitLog[2].saves # <<>>
    /\ returnCode = FAIL

\* C2: once the output folder exists, every hit of the list is entered; a
\* hit without a file record writes nothing and makes the status FAIL, and
\* every hit whose record resolves and whose own save steps succeed is on
\* disk under each of its set names, wherever the failing hits stand.
C2_LookupFailureIsolated ==
    (Done /\ rootOp = "created") =>
        /\ Len(hitLog) = Len(files)
        /\ \A i \in 1..Len(hitLog) :
              LET h == hitLog[i] IN
              /\ h.objectId = files[i]
              /\ h.done
              /\ NoRecordFor(h.objectId) =>
                    /\ ~h.resolved /\ h.ops = <<>> /\ h.saves = <<>>
                    /\ returnCode = FAIL
              /\ (~NoRecordFor(h.objectId) /\ ~HitFailed(h)) =>
                    /\ h.resolved
                    /\ \A S \in Range(SetNameValues(h.attrs)) :
                          Materialized(RecordOf(h.objectId), S)

\* A hit without record, then a directory hit that is saved whole.
C2_Witness ==
    /\ Done
    /\ Len(hitLog) = 2
    /\ NoRecordFor(hitLog[1].objectId)
    /\ HitClean(hitLog[2])
    /\ RecordOf(hitLog[2].objectId).metaType = "DIR"
    /\ hitLog[2].saves # <<>>
    /\ \A S \in Range(hitLog[2].saves) : Materialized(RecordOf(hitLog[2].objectId), S)

C4_InitializeDefersFailure ==
    /\ initStatus \in {"none", OK}
    /\ pc = "ready" =>
          /\ initStatus = OK
          /\ outputFolderPath = (IF argument = NULL THEN <<>> ELSE argument)
          /\ fsDirs = {} /\ fsFiles = {} /\ hitLog = <<>> /\ rootOp = "none"
    /\ (pc \notin {"loaded", "ready"} /\ Uncreatable(outputFolderPath)) => rootOp = "failed"
    /\ (Done /\ rootOp = "failed") =>
          /\ returnCode = FAIL
          /\ files = <<>> /\ hitLog = <<>>
          /\ fsDirs = {} /\ fsFiles = {}

\* report() has returned FAIL after initialize(NULL) returned OK.
C4_Witness ==
    /\ Done
    /\ argument = NULL
    /\ initStatus = OK
    /\ returnCode = FAIL

C6_OneSavePerSetNameAttribute ==
    \A h \in Range(hitLog) :
        LET want == SetNameValues(h.attrs)
            r == RecordOf(h.objectId)
        IN
        /\ Len(h.saves) <= Len(want)
        /\ h.saves = SubSeq(want, 1, Len(h.saves))
        /\ HitClean(h) =>
              /\ h.saves = want
              /\ TopOps(h) =
                    [k \in 1..Len(want) |->
                        IF r.metaType = "DIR"
                            THEN Op("mkdir", "saveInterestingDirectory",
                                    SubtreeRoot(r, want[k]), r.fileId, TRUE)
                            ELSE Op("copy", "saveInterestingFile",
                                    TopLevelPath(r, want[k]), r.fileId, TRUE)]

\* A directory hit with the set names t and s, in that order, saved twice.
C6_Witness ==
    \E h \in Range(hitLog) :
        /\ HitClean(h)
        /\ h.objectId = 1
        /\ h.saves = << <<"t">>, <<"s">> >>
        /\ Materialized(RecordOf(1), <<"t">>) /\ Materialized(RecordOf(1), <<"s">>)

\* C7: two top-level saves of records with different file ids never write
\* below the same <root>/<setName>/<fileId>_<name> path.
C7_TopLevelPathsDistinct ==
    \A o1, o2 \in AllTopOps :
        o1.fileId # o2.fileId => TopComponent(o1.path) # TopComponent(o2.path)

\* Two files with the same name and different ids saved under one set name.
C7_Witness ==
    /\ Done /\ ~ErrorOccurred
    /\ Len(hitLog) = 2
    /\ hitLog[1].objectId = 4 /\ hitLog[2].objectId = 12
    /\ RecordOf(4).name = RecordOf(12).name
    /\ hitLog[1].saves = << <<"s">> >> /\ hitLog[2].saves = << <<"s">> >>
    /\ Cardinality(TopLevelArtifacts) = 2

\* C8: a directory hit X that runs through without error has written, for
\* each of its set names S in turn, exactly the subtree root
\* <root>/<S>/<X.id>_<X.name>/<X.name> and one entry per descendant of X at
\* the subtree root followed by the names on its parent chain below X: a
\* directory for a DIR record, a copy of the record's content otherwise;
\* nothing else is written for the hit, and all of it is on disk.
C8_DirectoryStructurePreserved ==
    \A h \in Range(hitLog) :
        (HitClean(h) /\ RecordOf(h.objectId).metaType = "DIR") =>
            LET X == RecordOf(h.objectId)
                n == Cardinality(Descendants(X)) + 1
            IN
            /\ Len(h.ops) = Len(h.saves) * n
            /\ \A k \in 1..Len(h.saves) :
                  /\ {Entry(h.ops[j].op, h.ops[j].path, h.ops[j].fileId) :
                          j \in ((k - 1) * n + 1)..(k * n)}
                        = ExpectedEntries(X, h.saves[k])
                  /\ \A e \in ExpectedEntries(X, h.saves[k]) : OnDisk(e)

\* Directory 1 (a subdirectory with a file and an empty directory, and a
\* link) saved under set s.
C8_Witness ==
    \E h \in Range(hitLog) :
        /\ HitClean(h)
        /\ h.objectId = 1
        /\ h.saves = << <<"s">> >>
        /\ [path |-> <<"o", "/", "s", "/", "1", "_", "2", "a", "/", "2", "a", "/", "b", "/", "a">>,
            fileId |-> 12] \in fsFiles
        /\ <<"o", "/", "s", "/", "1", "_", "2", "a", "/", "2", "a", "/", "b", "/", "c">> \in fsDirs
        /\ [path |-> <<"o", "/", "s", "/", "1", "_", "2", "a", "/", "2", "a", "/", "a">>,
            fileId |-> 4] \in fsFiles

\* C9: a failed create-directory or copy step is the last step of its hit:
\* the walk is left at once (no frame remains), no further entry or set name
\* of the hit is handled, the inner catch runs once for the hit and sets
\* FAIL, and the loop goes on to enter every remaining hit.
C9_FailureAbortsHit ==
    /\ \A i \in 1..Len(hitLog) :
          LET h == hitLog[i] IN
          /\ \A k \in 1..Len(h.ops) : ~h.ops[k].ok => k = Len(h.ops)
          /\ HitFailed(h) =>
                /\ Len(TopOps(h)) = Len(h.saves)
                /\ i = Len(hitLog) => stack = <<>>
                /\ h.done \/ pc = "catchHit"
          /\ h.done => h.caught = (IF HitFailed(h) \/ ~h.resolved THEN 1 ELSE 0)
          /\ (h.done /\ HitFailed(h)) => returnCode = FAIL
          /\ i < Len(hitLog) => h.done
    /\ (Done /\ rootOp = "created") => Len(hitLog) = Len(files)

\* The copy of file 12 inside subdirectory b of directory 1 failed: neither
\* the empty directory c nor the link 4 was written, and the next hit was
\* saved.
C9_Witness ==
    /\ Done
    /\ Len(hitLog) = 2
    /\ hitLog[1].objectId = 1
    /\ HitFailed(hitLog[1])
    /\ hitLog[1].ops[Len(hitLog[1].ops)].fileId = 12
    /\ Visits(hitLog[1], 5) = 0 /\ Visits(hitLog[1], 4) = 0
    /\ HitClean(hitLog[2]) /\ hitLog[2].saves # <<>>
    /\ returnCode = FAIL

\* Each descendant of a saved directory is visited at most once per save,
\* exactly once per save when the hit runs through, and no other record is.
VisitedOnce ==
    \A h \in Range(hitLog) : \A r \in Records :
        /\ Visits(h, r.fileId) <= Len(h.saves)
        /\ h.resolved /\ ~IsBelow(r, RecordOf(h.objectId)) => Visits(h, r.fileId) = 0
        /\ (HitClean(h) /\ IsBelow(r, RecordOf(h.objectId))) =>
              Visits(h, r.fileId) = Len(h.saves)

\* C10: on the image, whose parent links have no cycle, a started report()
\* returns a status with every walk it started at its end (no frame is
\* left), and a walk visits each descendant exactly once per save.
C10_WalkTerminates ==
    /\ InReport ~> (pc = "returned" /\ stack = <<>> /\ returnCode \in {OK, FAIL})
    /\ []VisitedOnce

\* report() has returned after walking directory 1, three levels deep, to
\* its end.
C10_Witness ==
    /\ pc = "returned"
    /\ stack = <<>>
    /\ \E h \in Range(hitLog) :
          /\ h.objectId = 1 /\ HitClean(h) /\ h.saves = << <<"t">> >>
          /\ \A r \in Descendants(RecordOf(1)) : Visits(h, r.fileId) = 1
          /\ Cardinality(Descendants(RecordOf(1))) = 4

====
